---- MODULE Spec2Model ----
(***************************************************************************)
(* Model of vscan-anti-csrf-token-checker (src/main.py).                   *)
(*                                                                         *)
(* Python strings are modelled as sequences of one-character strings, so   *)
(* that case conversion, substring search, URL parsing and URL joining are *)
(* computed character by character as the code and the library calls it    *)
(* makes compute them.  Python's None is the value None below, a sequence  *)
(* that no character sequence can equal.                                   *)
(***************************************************************************)
EXTENDS Integers, Sequences, FiniteSets, TLC

VARIABLES pc,              \* position of the process
          url,             \* args.url
          verbose,         \* args.verbose
          level,           \* level of the root logger
          valid,           \* what validate_url returned
          forms,           \* what get_forms returned
          idx,             \* number of forms the loop of main has handled
          form,            \* the form handed to analyze_form
          analysis_result, \* what analyze_form returned last
          results,         \* history: analyze_form's result for each form
          analyzed,        \* history: the indexes of the forms handed to analyze_form
          log,             \* the records logged so far
          exit_code,       \* the exit status, Running until the process has exited
          gets,            \* history: number of calls of requests.get
          fetch_outcome,   \* history: how the call of requests.get ended
          trace            \* history: the pipeline steps taken

vars == <<pc, url, verbose, level, valid, forms, idx, form, analysis_result,
          results, analyzed, log, exit_code, gets, fetch_outcome, trace>>

----------------------------------------------------------------------------
(* Bounds *)

MaxForms == 2

MaxInputs == 2

----------------------------------------------------------------------------
(* Strings *)

None == <<"None">>

Lowers == <<"a","b","c","d","e","f","g","h","i","j","k","l","m",
            "n","o","p","q","r","s","t","u","v","w","x","y","z">>

Uppers == <<"A","B","C","D","E","F","G","H","I","J","K","L","M",
            "N","O","P","Q","R","S","T","U","V","W","X","Y","Z">>

Digits == {"0","1","2","3","4","5","6","7","8","9"}

IsLower(c) == \E k \in 1..26 : Lowers[k] = c

IsUpper(c) == \E k \in 1..26 : Uppers[k] = c

IsAlpha(c) == IsLower(c) \/ IsUpper(c)

UpperChar(c) == IF IsLower(c) THEN Uppers[CHOOSE k \in 1..26 : Lowers[k] = c] ELSE c

LowerChar(c) == IF IsUpper(c) THEN Lowers[CHOOSE k \in 1..26 : Uppers[k] = c] ELSE c

UpperStr(s) == [k \in 1..Len(s) |-> UpperChar(s[k])]

LowerStr(s) == [k \in 1..Len(s) |-> LowerChar(s[k])]

\* str.find(c, start) on 1-based positions; 0 when c does not occur
Find(s, c, start) ==
  IF \E k \in start..Len(s) : s[k] = c
  THEN CHOOSE k \in start..Len(s) : s[k] = c /\ \A j \in start..(k-1) : s[j] # c
  ELSE 0

HasChar(s, c) == \E k \in 1..Len(s) : s[k] = c

StartsWith(s, p) == Len(s) >= Len(p) /\ SubSeq(s, 1, Len(p)) = p

Contains(s, sub) ==
  \E k \in 0..(Len(s) - Len(sub)) : SubSeq(s, k + 1, k + Len(sub)) = sub

Tail2(s, k) == SubSeq(s, k, Len(s))

----------------------------------------------------------------------------
(* urllib.parse as used by validate_url and analyze_form *)

scheme_chars == {Lowers[k] : k \in 1..26} \cup {Uppers[k] : k \in 1..26}
                \cup Digits \cup {"+", "-", "."}

uses_relative == { <<>>, <<"f","t","p">>, <<"h","t","t","p">>,
                   <<"h","t","t","p","s">>, <<"f","i","l","e">>,
                   <<"w","s">>, <<"w","s","s">> }

uses_netloc == uses_relative \cup { <<"t","e","l","n","e","t">>, <<"g","i","t">>,
                                    <<"n","f","s">> }

\* hosts that ipaddress.ip_address accepts as IPv6 inside brackets
ValidBracketHosts == { <<":",":","1">> }

ParseError == [err |-> TRUE, scheme |-> <<>>, netloc |-> <<>>, path |-> <<>>,
               query |-> <<>>, fragment |-> <<>>]

\* position of the first of "/?#" at or after start, Len(s)+1 when none
NetlocEnd(s, start) ==
  IF \E k \in start..Len(s) : s[k] \in {"/", "?", "#"}
  THEN CHOOSE k \in start..Len(s) :
         s[k] \in {"/", "?", "#"} /\ \A j \in start..(k-1) : s[j] \notin {"/", "?", "#"}
  ELSE Len(s) + 1

BracketedHost(netloc) ==
  LET o == Find(netloc, "[", 1)
      c == Find(netloc, "]", o + 1)
  IN  IF c = 0 THEN Tail2(netloc, o + 1) ELSE SubSeq(netloc, o + 1, c - 1)

\* the bracket checks of urlsplit on the network location
BadNetloc(netloc) ==
  \/ HasChar(netloc, "[") /\ ~HasChar(netloc, "]")
  \/ HasChar(netloc, "]") /\ ~HasChar(netloc, "[")
  \/ /\ HasChar(netloc, "[")
     /\ HasChar(netloc, "]")
     /\ BracketedHost(netloc) \notin ValidBracketHosts

\* urlsplit: the split of query from path
SplitQuery(scheme, netloc, r3, fragment) ==
  [err |-> FALSE, scheme |-> scheme, netloc |-> netloc,
   path |-> IF Find(r3, "?", 1) > 0 THEN SubSeq(r3, 1, Find(r3, "?", 1) - 1) ELSE r3,
   query |-> IF Find(r3, "?", 1) > 0 THEN Tail2(r3, Find(r3, "?", 1) + 1) ELSE <<>>,
   fragment |-> fragment]

\* urlsplit: the split of the fragment from the rest
SplitFragment(scheme, netloc, r2) ==
  IF Find(r2, "#", 1) > 0
  THEN SplitQuery(scheme, netloc, SubSeq(r2, 1, Find(r2, "#", 1) - 1),
                  Tail2(r2, Find(r2, "#", 1) + 1))
  ELSE SplitQuery(scheme, netloc, r2, <<>>)

\* urlsplit: the network location after "//"
SplitNetloc(scheme, r1) ==
  IF Len(r1) >= 2 /\ r1[1] = "/" /\ r1[2] = "/"
  THEN IF BadNetloc(SubSeq(r1, 3, NetlocEnd(r1, 3) - 1))
       THEN ParseError
       ELSE SplitFragment(scheme, SubSeq(r1, 3, NetlocEnd(r1, 3) - 1),
                          Tail2(r1, NetlocEnd(r1, 3)))
  ELSE SplitFragment(scheme, <<>>, r1)

\* urlsplit: position of the colon that ends the scheme, 0 when there is none
SchemeEnd(u) ==
  IF /\ Find(u, ":", 1) > 1
     /\ IsAlpha(u[1])
     /\ \A k \in 1..(Find(u, ":", 1) - 1) : u[k] \in scheme_chars
  THEN Find(u, ":", 1)
  ELSE 0

urlparse(u, default) ==
  IF SchemeEnd(u) > 0
  THEN SplitNetloc(LowerStr(SubSeq(u, 1, SchemeEnd(u) - 1)), Tail2(u, SchemeEnd(u) + 1))
  ELSE SplitNetloc(default, u)

urlunparse(p) ==
  LET u1 == IF \/ p.netloc # <<>>
               \/ (p.scheme # <<>> /\ p.scheme \in uses_netloc
                   /\ ~StartsWith(p.path, <<"/","/">>))
            THEN <<"/","/">> \o p.netloc
                 \o (IF p.path # <<>> /\ p.path[1] # "/" THEN <<"/">> ELSE <<>>)
                 \o p.path
            ELSE p.path
      u2 == IF p.scheme # <<>> THEN p.scheme \o <<":">> \o u1 ELSE u1
      u3 == IF p.query # <<>> THEN u2 \o <<"?">> \o p.query ELSE u2
  IN  IF p.fragment # <<>> THEN u3 \o <<"#">> \o p.fragment ELSE u3

RECURSIVE Split(_, _)
\* str.split(c)
Split(s, c) ==
  LET k == Find(s, c, 1)
  IN  IF k = 0 THEN <<s>>
      ELSE <<SubSeq(s, 1, k - 1)>> \o Split(Tail2(s, k + 1), c)

RECURSIVE Join(_, _)
\* c.join(segs)
Join(segs, c) ==
  IF segs = <<>> THEN <<>>
  ELSE IF Len(segs) = 1 THEN segs[1]
  ELSE segs[1] \o <<c>> \o Join(Tail(segs), c)

\* filter(None, segs)
FilterEmpty(segs) == SelectSeq(segs, LAMBDA x : x # <<>>)

RECURSIVE Resolve(_, _)
\* the loop over segments in urljoin that removes "." and ".." segments
Resolve(segments, resolved) ==
  IF segments = <<>> THEN resolved
  ELSE LET seg == Head(segments)
       IN  IF seg = <<".",".">>
           THEN Resolve(Tail(segments),
                        IF resolved = <<>> THEN resolved
                        ELSE SubSeq(resolved, 1, Len(resolved) - 1))
           ELSE IF seg = <<".">>
           THEN Resolve(Tail(segments), resolved)
           ELSE Resolve(Tail(segments), Append(resolved, seg))

JoinOk(v) == [err |-> FALSE, v |-> v]

JoinError == [err |-> TRUE, v |-> <<>>]

\* urljoin: the segments of the base path without its last, non-directory one
BaseParts(bpath) ==
  IF Split(bpath, "/")[Len(Split(bpath, "/"))] # <<>>
  THEN SubSeq(Split(bpath, "/"), 1, Len(Split(bpath, "/")) - 1)
  ELSE Split(bpath, "/")

\* urljoin: the segments of the joined path, before "." and ".." are resolved
Segments(bpath, path) ==
  IF path[1] = "/" THEN Split(path, "/")
  ELSE IF Len(BaseParts(bpath) \o Split(path, "/")) < 2
  THEN BaseParts(bpath) \o Split(path, "/")
  ELSE <<(BaseParts(bpath) \o Split(path, "/"))[1]>>
       \o FilterEmpty(SubSeq(BaseParts(bpath) \o Split(path, "/"), 2,
                             Len(BaseParts(bpath) \o Split(path, "/")) - 1))
       \o <<Split(path, "/")[Len(Split(path, "/"))]>>

\* urljoin: the resolved path of the given segments
ResolvedPath(segments) ==
  IF Join(IF segments[Len(segments)] \in { <<".">>, <<".",".">> }
          THEN Append(Resolve(segments, <<>>), <<>>)
          ELSE Resolve(segments, <<>>), "/") = <<>>
  THEN <<"/">>
  ELSE Join(IF segments[Len(segments)] \in { <<".">>, <<".",".">> }
            THEN Append(Resolve(segments, <<>>), <<>>)
            ELSE Resolve(segments, <<>>), "/")

\* urljoin once base and url are parsed into b and p
JoinParsed(u, b, p) ==
  IF p.scheme # b.scheme \/ p.scheme \notin uses_relative
  THEN JoinOk(u)
  ELSE IF p.scheme \in uses_netloc /\ p.netloc # <<>>
  THEN JoinOk(urlunparse(p))
  ELSE IF p.path = <<>>
  THEN JoinOk(urlunparse(
         [p EXCEPT !.netloc = IF p.scheme \in uses_netloc THEN b.netloc ELSE p.netloc,
                   !.path = b.path,
                   !.query = IF p.query = <<>> THEN b.query ELSE p.query]))
  ELSE JoinOk(urlunparse(
         [p EXCEPT !.netloc = IF p.scheme \in uses_netloc THEN b.netloc ELSE p.netloc,
                   !.path = ResolvedPath(Segments(b.path, p.path))]))

\* urljoin once base is parsed into b
JoinBase(u, b) ==
  IF b.err THEN JoinError
  ELSE IF urlparse(u, b.scheme).err THEN JoinError
  ELSE JoinParsed(u, b, urlparse(u, b.scheme))

urljoin(base, u) ==
  IF base = <<>> THEN JoinOk(u)
  ELSE IF u = <<>> THEN JoinOk(base)
  ELSE JoinBase(u, urlparse(base, <<>>))

----------------------------------------------------------------------------
(* validate_url *)

\* all([result.scheme, result.netloc])
AllOf(result) == result.scheme # <<>> /\ result.netloc # <<>>

AnyOf(result) == result.scheme # <<>> \/ result.netloc # <<>>

validate_url_any(u) ==
  IF urlparse(u, <<>>).err THEN FALSE ELSE AnyOf(urlparse(u, <<>>))

validate_url(u) ==
  IF urlparse(u, <<>>).err THEN FALSE ELSE AllOf(urlparse(u, <<>>))

----------------------------------------------------------------------------
(* analyze_form *)

GET == <<"G","E","T">>

hidden == <<"h","i","d","d","e","n">>

\* the alternatives of the pattern (csrf|token|xsrf|authenticity)
Keywords == { <<"c","s","r","f">>, <<"t","o","k","e","n">>, <<"x","s","r","f">>,
              <<"a","u","t","h","e","n","t","i","c","i","t","y">> }

\* re.search(pattern, name, re.IGNORECASE) is not None
re_search(name) == \E kw \in Keywords : Contains(LowerStr(name), kw)

\* the test an input passes to be taken as the token field
IsTokenField(input_field) ==
  /\ input_field.type = hidden
  /\ input_field.name # None
  /\ input_field.name # <<>>
  /\ re_search(input_field.name)

RECURSIVE ScanLast(_)
ScanLast(inputs) ==
  IF inputs = <<>> THEN None
  ELSE IF IsTokenField(inputs[Len(inputs)]) THEN inputs[Len(inputs)].name
  ELSE ScanLast(SubSeq(inputs, 1, Len(inputs) - 1))

RECURSIVE Scan(_)
\* the loop over form.find_all('input'), left at the first token field
Scan(inputs) ==
  IF inputs = <<>> THEN None
  ELSE IF IsTokenField(Head(inputs)) THEN Head(inputs).name
  ELSE Scan(Tail(inputs))

Failure == [failed |-> TRUE, has_csrf_token |-> FALSE, token_name |-> None,
            method |-> <<>>, action |-> <<>>]

\* the dictionary analyze_form returns
Result(has_csrf_token, token_name, method, action) ==
  [failed |-> FALSE, has_csrf_token |-> has_csrf_token, token_name |-> token_name,
   method |-> method, action |-> action]

\* the page URL when the form has no action attribute
ActionOf(f, u) == IF f.action = None THEN u ELSE f.action

\* "GET" when the form has no method attribute
MethodOf(f) == IF f.method = None THEN GET ELSE f.method

analyze_form_any_hidden(f, u) ==
  IF urljoin(u, ActionOf(f, u)).err THEN Failure
  ELSE Result(\E k \in 1..Len(f.inputs) : f.inputs[k].type = hidden,
              Scan(f.inputs), UpperStr(MethodOf(f)), urljoin(u, ActionOf(f, u)).v)

analyze_form_no_upper(f, u) ==
  IF urljoin(u, ActionOf(f, u)).err THEN Failure
  ELSE Result(Scan(f.inputs) # None, Scan(f.inputs), MethodOf(f),
              urljoin(u, ActionOf(f, u)).v)

analyze_form_no_join(f, u) ==
  IF urljoin(u, ActionOf(f, u)).err THEN Failure
  ELSE Result(Scan(f.inputs) # None, Scan(f.inputs), UpperStr(MethodOf(f)),
              ActionOf(f, u))

analyze_form(f, u) ==
  IF urljoin(u, ActionOf(f, u)).err THEN Failure
  ELSE Result(Scan(f.inputs) # None, Scan(f.inputs), UpperStr(MethodOf(f)),
              urljoin(u, ActionOf(f, u)).v)

----------------------------------------------------------------------------
(* Inputs *)

\* pieces the candidate URL strings given to validate_url are built from
SchemeParts == { <<>>,
                 <<"h","t","t","p",":">>,
                 <<"H","t","T","p",":">>,
                 <<"x","+","1",":">>,
                 <<"1","x",":">>,
                 <<":">> }

AuthorityParts == { <<>>,
                    <<"/","/">>,
                    <<"/","/","a">>,
                    <<"/","/","a",".","b">>,
                    <<"/","/","[">>,
                    <<"/","/","a","]">>,
                    <<"/","/","[","a","]">>,
                    <<"/","/","[",":",":","1","]">> }

PathParts == { <<>>,
               <<"/","x">>,
               <<"x">>,
               <<"?","q">>,
               <<"#","f">> }

UrlStrings == { s \o a \o p : s \in SchemeParts, a \in AuthorityParts, p \in PathParts }
              \cup { <<"n","o","t","-","a","-","u","r","l">> }

\* requests.get finds a connection adapter only for http:// and https://
Fetchable(u) == \/ StartsWith(LowerStr(u), <<"h","t","t","p",":","/","/">>)
                \/ StartsWith(LowerStr(u), <<"h","t","t","p","s",":","/","/">>)

\* the URLs given on the command line
Urls == { <<"h","t","t","p","s",":","/","/","a",".","c","o","m","/","l","o","g","i","n">>,
          <<"H","T","T","P",":","/","/","a","/","l">>,
          <<"h","t","t","p",":","/","/","a","?">>,
          <<"f","o","o",":","/","/","b","/","x">>,
          <<"n","o","t","-","a","-","u","r","l">>,
          <<"h","t","t","p",":","/","/">>,
          <<"/","/","a","/","l">>,
          <<"h","t","t","p",":","/","/","[","a">> }

\* the URLs whose page can have forms
PageUrls == { u \in Urls : validate_url(u) /\ Fetchable(u) }

MethodAttrs == { None,
                 <<>>,
                 <<"P","o","S","t">>,
                 <<"f","o","o">> }

ActionAttrs == { None,
                 <<>>,
                 <<"/","s","u","b","m","i","t">>,
                 <<".",".","/","y">>,
                 <<"#","f">>,
                 <<"h","t","t","p","s",":","/","/","b","/","x">>,
                 <<"H","T","T","P","S",":","/","/","a",".","c","o","m","/","x">>,
                 <<"h","t","t","p",":","/","/","b","/","x","?">>,
                 <<"m","a","i","l","t","o",":","x">>,
                 <<"/","/","[","x">> }

\* <input> elements: the type and name attributes, None when absent
InputFields ==
  { [type |-> hidden, name |-> <<"c","s","r","f","_","t","o","k","e","n">>],
    [type |-> hidden, name |-> <<"u","s","e","r","_","i","d">>],
    [type |-> hidden, name |-> <<"X","s","r","f","-","A","u","t","h","e","n","t","i","c","i","t","y">>],
    [type |-> hidden, name |-> <<>>],
    [type |-> hidden, name |-> None],
    [type |-> <<"H","I","D","D","E","N">>, name |-> <<"c","s","r","f">>] }

\* the sequences over S of length at most n
SeqsUpTo(S, n) == UNION { [1..k -> S] : k \in 0..n }

\* the <form> elements given to analyze_form on its own
AllForms == { [method |-> m, action |-> a, inputs |-> i] :
               m \in MethodAttrs, a \in ActionAttrs, i \in SeqsUpTo(InputFields, MaxInputs) }

\* the <form> elements of the pages main fetches
PageForms ==
  { [method |-> None, action |-> None,
     inputs |-> << [type |-> hidden, name |-> <<"c","s","r","f","_","t","o","k","e","n">>] >>],
    [method |-> <<"p","o","s","t">>, action |-> <<"/","s","u","b","m","i","t">>,
     inputs |-> << [type |-> hidden, name |-> <<"u","s","e","r","_","i","d">>] >>],
    [method |-> <<"P","o","s","t">>, action |-> <<"h","t","t","p","s",":","/","/","b","/","x">>,
     inputs |-> << [type |-> <<"t","e","x","t">>, name |-> <<"t","o","k","e","n">>],
                   [type |-> hidden, name |-> <<"a","u","t","h","e","n","t","i","c","i","t","y","_","t","o","k","e","n">>] >>],
    [method |-> <<"g","e","t">>, action |-> <<"/","/","[","x">>,
     inputs |-> << [type |-> hidden, name |-> <<"c","s","r","f">>] >>],
    [method |-> None, action |-> <<>>, inputs |-> <<>>] }

Pages == SeqsUpTo(PageForms, MaxForms)

----------------------------------------------------------------------------
(* Logging *)

Running == -1

Rec(lvl, msg, i, arg) == [level |-> lvl, msg |-> msg, form |-> i, arg |-> arg]

Logged(lvl, msg, i) ==
  \E k \in 1..Len(log) : log[k].level = lvl /\ log[k].msg = msg /\ log[k].form = i

\* what the loop body of main logs for form i once analyze_form has returned r
ReportWarnsOnFailure(i, r) ==
  IF ~r.failed /\ r.has_csrf_token
  THEN << Rec("INFO", "Method", i, r.method),
          Rec("INFO", "Action", i, r.action),
          Rec("INFO", "CSRF Token Present: Yes", i, r.token_name) >>
  ELSE << Rec("WARNING", "CSRF Token Present: No", i, None),
          Rec("WARNING", "Potential CSRF vulnerability found!", i, None) >>

Report(i, r) ==
  IF r.failed
  THEN << Rec("ERROR", "Failed to analyze form", i, None) >>
  ELSE << Rec("INFO", "Method", i, r.method),
          Rec("INFO", "Action", i, r.action) >>
       \o (IF r.has_csrf_token
           THEN << Rec("INFO", "CSRF Token Present: Yes", i, r.token_name) >>
           ELSE << Rec("WARNING", "CSRF Token Present: No", i, None),
                   Rec("WARNING", "Potential CSRF vulnerability found!", i, None) >>)

----------------------------------------------------------------------------
(* main *)

Idle == /\ level = "INFO"
        /\ idx = 0
        /\ form = None
        /\ analysis_result = Failure
        /\ results = <<>>
        /\ analyzed = <<>>
        /\ log = <<>>
        /\ exit_code = Running
        /\ gets = 0
        /\ fetch_outcome = "none"
        /\ trace = <<>>

Init == /\ pc = "main"
        /\ url \in Urls
        /\ verbose \in BOOLEAN
        /\ valid = FALSE
        /\ forms = <<>>
        /\ Idle

ExitCodeInvalid == 1

\* main up to the call of get_forms
Validate ==
  /\ pc = "main"
  /\ level' = IF verbose THEN "DEBUG" ELSE "INFO"
  /\ valid' = validate_url(url)
  /\ trace' = Append(trace, "validate")
  /\ IF ~validate_url(url)
     THEN /\ log' = Append(log, Rec("ERROR", "Invalid URL provided.", 0, None))
          /\ exit_code' = ExitCodeInvalid
          /\ pc' = "exited"
     ELSE /\ log' = Append(log, Rec("INFO", "Analyzing URL", 0, url))
          /\ exit_code' = exit_code
          /\ pc' = "get_forms"
  /\ UNCHANGED <<url, verbose, forms, idx, form, analysis_result, results,
                 analyzed, gets, fetch_outcome>>

\* how the call of requests.get can end for URL u
RequestOutcomes(u) ==
  IF Fetchable(u)
  THEN {"ok", "connection_error", "timeout", "http_error"}
  ELSE {"invalid_schema"}

\* get_forms without the call of raise_for_status
get_forms_no_raise_for_status(outcome, parsed, page) ==
  IF outcome \in {"ok", "http_error"}
  THEN [forms |-> IF parsed THEN page ELSE <<>>,
        outcome |-> IF ~parsed THEN "parse_error" ELSE outcome,
        steps |-> <<"fetch", "extract">>,
        logged |-> IF parsed THEN <<>>
                   ELSE << Rec("ERROR", "Error parsing HTML", 0, None) >>]
  ELSE [forms |-> <<>>, outcome |-> outcome, steps |-> <<"fetch">>,
        logged |-> << Rec("ERROR", "Error fetching URL", 0, None) >>]

\* get_forms, given how the request ended, whether the parse of the response
\* succeeded, and the forms of the page
get_forms(outcome, parsed, page) ==
  IF outcome = "ok"
  THEN [forms |-> IF parsed THEN page ELSE <<>>,
        outcome |-> IF parsed THEN "ok" ELSE "parse_error",
        steps |-> <<"fetch", "extract">>,
        logged |-> IF parsed THEN <<>>
                   ELSE << Rec("ERROR", "Error parsing HTML", 0, None) >>]
  ELSE [forms |-> <<>>, outcome |-> outcome, steps |-> <<"fetch">>,
        logged |-> << Rec("ERROR", "Error fetching URL", 0, None) >>]

GetFormsRetry ==
  /\ pc = "get_forms"
  /\ gets' = gets + 1
  /\ \E outcome \in RequestOutcomes(url), parsed \in BOOLEAN, page \in Pages :
       \E r \in { get_forms(outcome, parsed, page) } :
           /\ forms' = r.forms
           /\ fetch_outcome' = r.outcome
           /\ trace' = trace \o r.steps
           /\ log' = log \o r.logged
           /\ pc' = IF r.outcome \notin {"ok", "parse_error"} /\ gets < 1
                    THEN "get_forms" ELSE "forms"
  /\ UNCHANGED <<url, verbose, level, valid, idx, form, analysis_result, results,
                 analyzed, exit_code>>

\* main calls get_forms: one call of requests.get, then the parse of the response
GetForms ==
  /\ pc = "get_forms"
  /\ gets' = gets + 1
  /\ \E outcome \in RequestOutcomes(url), parsed \in BOOLEAN, page \in Pages :
       \E r \in { get_forms(outcome, parsed, page) } :
           /\ forms' = r.forms
           /\ fetch_outcome' = r.outcome
           /\ trace' = trace \o r.steps
           /\ log' = log \o r.logged
  /\ pc' = "forms"
  /\ UNCHANGED <<url, verbose, level, valid, idx, form, analysis_result, results,
                 analyzed, exit_code>>

\* main: if not forms
NoForms ==
  /\ pc = "forms"
  /\ forms = <<>>
  /\ log' = Append(log, Rec("INFO", "No forms found on the page.", 0, None))
  /\ exit_code' = 0
  /\ pc' = "exited"
  /\ UNCHANGED <<url, verbose, level, valid, forms, idx, form, analysis_result,
                 results, analyzed, gets, fetch_outcome, trace>>

AnalyzeNextAbortOnFailure ==
  /\ pc = "forms"
  /\ forms # <<>>
  /\ idx < Len(forms)
  /\ \E i \in { idx + 1 } : \E r \in { analyze_form(forms[i], url) } :
         /\ form' = forms[i]
         /\ analysis_result' = r
         /\ results' = Append(results, r)
         /\ analyzed' = Append(analyzed, i)
         /\ log' = log \o << Rec("INFO", "Analyzing Form", i, None) >>
                       \o (IF r.failed
                           THEN << Rec("ERROR", "Error analyzing form", i, None) >>
                           ELSE <<>>)
                       \o Report(i, r)
         /\ trace' = trace \o <<"analyze", "report">>
         /\ idx' = i
         /\ pc' = IF r.failed THEN "exited" ELSE pc
         /\ exit_code' = IF r.failed THEN 0 ELSE exit_code
  /\ UNCHANGED <<url, verbose, level, valid, forms, gets, fetch_outcome>>

\* main: one pass of the loop over the forms
AnalyzeNext ==
  /\ pc = "forms"
  /\ forms # <<>>
  /\ idx < Len(forms)
  /\ \E i \in { idx + 1 } : \E r \in { analyze_form(forms[i], url) } :
         /\ form' = forms[i]
         /\ analysis_result' = r
         /\ results' = Append(results, r)
         /\ analyzed' = Append(analyzed, i)
         /\ log' = log \o << Rec("INFO", "Analyzing Form", i, None) >>
                       \o (IF r.failed
                           THEN << Rec("ERROR", "Error analyzing form", i, None) >>
                           ELSE <<>>)
                       \o Report(i, r)
         /\ trace' = trace \o <<"analyze", "report">>
         /\ idx' = i
  /\ UNCHANGED <<pc, url, verbose, level, valid, forms, exit_code, gets,
                 fetch_outcome>>

FinishFailureStatus ==
  /\ pc = "forms"
  /\ forms # <<>>
  /\ idx = Len(forms)
  /\ exit_code' = IF \E k \in 1..Len(results) : results[k].failed THEN 2 ELSE 0
  /\ pc' = "exited"
  /\ UNCHANGED <<url, verbose, level, valid, forms, idx, form, analysis_result,
                 results, analyzed, log, gets, fetch_outcome, trace>>

\* main returns after the last form
Finish ==
  /\ pc = "forms"
  /\ forms # <<>>
  /\ idx = Len(forms)
  /\ exit_code' = 0
  /\ pc' = "exited"
  /\ UNCHANGED <<url, verbose, level, valid, forms, idx, form, analysis_result,
                 results, analyzed, log, gets, fetch_outcome, trace>>

Next == Validate \/ GetForms \/ NoForms \/ AnalyzeNext \/ Finish

Spec == Init /\ [][Next]_vars

----------------------------------------------------------------------------
(* analyze_form on its own *)

InitAnalyze == /\ pc = "analyze_form"
               /\ url \in PageUrls
               /\ verbose = FALSE
               /\ valid = TRUE
               /\ forms \in { <<f>> : f \in AllForms }
               /\ Idle

CallAnalyzeForm ==
  /\ pc = "analyze_form"
  /\ form' = forms[1]
  /\ analysis_result' = analyze_form(forms[1], url)
  /\ pc' = "returned"
  /\ UNCHANGED <<url, verbose, level, valid, forms, idx, results, analyzed, log,
                 exit_code, gets, fetch_outcome, trace>>

NextAnalyze == CallAnalyzeForm

SpecAnalyze == InitAnalyze /\ [][NextAnalyze]_vars

----------------------------------------------------------------------------
(* validate_url on its own *)

InitValidate == /\ pc = "validate_url"
                /\ url \in UrlStrings
                /\ verbose = FALSE
                /\ valid = FALSE
                /\ forms = <<>>
                /\ Idle

CallValidateUrl ==
  /\ pc = "validate_url"
  /\ valid' = validate_url(url)
  /\ pc' = "returned"
  /\ UNCHANGED <<url, verbose, level, forms, idx, form, analysis_result, results,
                 analyzed, log, exit_code, gets, fetch_outcome, trace>>

NextValidate == CallValidateUrl

SpecValidate == InitValidate /\ [][NextValidate]_vars

----------------------------------------------------------------------------
(* Properties of analyze_form, checked under SpecAnalyze *)

Returned == pc = "returned" /\ ~analysis_result.failed

\* characters equal up to case
SameLetter(a, b) == a = b \/ UpperChar(a) = b \/ a = UpperChar(b)

\* name contains keyword kw, case-insensitively
ContainsIgnoreCase(name, kw) ==
  \E off \in 0..(Len(name) - Len(kw)) :
     \A j \in 1..Len(kw) : SameLetter(name[off + j], kw[j])

\* input k of form f is a hidden input named like a CSRF token
TokenLike(f, k) ==
  /\ f.inputs[k].type = <<"h","i","d","d","e","n">>
  /\ f.inputs[k].name # None
  /\ \E kw \in { <<"c","s","r","f">>, <<"t","o","k","e","n">>, <<"x","s","r","f">>, <<"a","u","t","h","e","n","t","i","c","i","t","y">> } :
        ContainsIgnoreCase(f.inputs[k].name, kw)

TokenLikeInputs(f) == { k \in 1..Len(f.inputs) : TokenLike(f, k) }

\* C1: the result names the first hidden input, in document order, whose name
\* contains csrf, token, xsrf or authenticity case-insensitively, also when a
\* later one matches; with no such input has_csrf_token is false and
\* token_name is absent.
C1_FirstTokenFieldWins ==
  Returned =>
    LET c == TokenLikeInputs(form)
    IN  IF c = {}
        THEN ~analysis_result.has_csrf_token /\ analysis_result.token_name = None
        ELSE /\ analysis_result.has_csrf_token
             /\ \E k \in c : /\ \A j \in c : k <= j
                             /\ analysis_result.token_name = form.inputs[k].name

C1_Witness ==
  /\ Returned
  /\ Len(form.inputs) = 2
  /\ TokenLikeInputs(form) = {1, 2}
  /\ form.inputs[1].name # form.inputs[2].name
  /\ analysis_result.token_name = form.inputs[1].name

\* C2: in every result, has_csrf_token is true if and only if token_name is
\* present; an empty string is never reported as a token name.
C2_TokenFlagIffName ==
  Returned =>
    /\ analysis_result.has_csrf_token <=> analysis_result.token_name # None
    /\ analysis_result.token_name # <<>>

C2_Witness ==
  /\ Returned
  /\ \E k \in 1..Len(form.inputs) :
        form.inputs[k].type = hidden /\ form.inputs[k].name = <<>>
  /\ ~analysis_result.has_csrf_token
  /\ analysis_result.token_name = None

HttpVerbs == { <<"G","E","T">>, <<"H","E","A","D">>, <<"P","O","S","T">>, <<"P","U","T">>, <<"D","E","L","E","T","E">>, <<"C","O","N","N","E","C","T">>,
               <<"O","P","T","I","O","N","S">>, <<"T","R","A","C","E">>, <<"P","A","T","C","H">> }

\* s spells t up to the case of its letters
SameIgnoreCase(s, t) ==
  Len(s) = Len(t) /\ \A k \in 1..Len(s) : SameLetter(s[k], t[k])

\* C8 as claimed: the method of every result is one of the uppercased HTTP
\* verb strings, whatever the value of the method attribute.
C8_MethodIsHttpVerb ==
  Returned => analysis_result.method \in HttpVerbs

\* C8 as amended: the method of every result is the method attribute's value
\* with its letters uppercased, GET when the attribute is absent; it is an HTTP
\* verb exactly when the attribute is absent or spells one in some casing.
C8_MethodIsUppercasedAttribute ==
  Returned =>
    /\ form.method = None => analysis_result.method = <<"G","E","T">>
    /\ form.method # None =>
         /\ SameIgnoreCase(analysis_result.method, form.method)
         /\ \A k \in 1..Len(analysis_result.method) :
               ~IsLower(analysis_result.method[k])
    /\ analysis_result.method \in HttpVerbs <=>
         \/ form.method = None
         \/ \E v \in HttpVerbs : SameIgnoreCase(form.method, v)

C8_Witness ==
  /\ Returned
  /\ form.method = <<"P","o","S","t">>
  /\ analysis_result.method = <<"P","O","S","T">>

\* position of the colon ending the scheme of s, 0 when s has no scheme
SchemeColon(s) ==
  IF /\ s # <<>>
     /\ IsAlpha(s[1])
     /\ \E i \in 2..Len(s) : s[i] = ":" /\ \A j \in 1..(i-1) : s[j] \in scheme_chars
  THEN CHOOSE i \in 2..Len(s) : s[i] = ":" /\ \A j \in 1..(i-1) : s[j] \in scheme_chars
  ELSE 0

HasScheme(s) == SchemeColon(s) > 0

\* s has "//" and a non-empty authority right after its scheme, if any
HasAuthority(s) ==
  LET i == SchemeColon(s)
  IN  /\ Len(s) >= i + 3
      /\ s[i + 1] = "/"
      /\ s[i + 2] = "/"
      /\ s[i + 3] \notin {"/", "?", "#"}

\* the scheme of s, in lower case
SchemeOf(s) == [k \in 1..(SchemeColon(s) - 1) |-> LowerChar(s[k])]

\* scheme, "://" and authority of s, the scheme in lower case
OriginOf(s) ==
  LET i == SchemeColon(s)
      e == IF \E k \in (i+3)..Len(s) : s[k] \in {"/", "?", "#"}
           THEN CHOOSE k \in (i+3)..Len(s) :
                  s[k] \in {"/", "?", "#"} /\ \A j \in (i+3)..(k-1) : s[j] \notin {"/", "?", "#"}
           ELSE Len(s) + 1
  IN  SchemeOf(s) \o SubSeq(s, i, e - 1)

\* s is spelled as the URL parser re-assembles it: no upper-case letter in the
\* scheme, no "?" or "#" delimiter with nothing after it
Reassembled(s) ==
  LET i == SchemeColon(s)
      h == IF \E k \in 1..Len(s) : s[k] = "#"
           THEN CHOOSE k \in 1..Len(s) : s[k] = "#" /\ \A j \in 1..(k-1) : s[j] # "#"
           ELSE Len(s) + 1
  IN  /\ \A k \in 1..(i-1) : ~IsUpper(s[k])
      /\ h # Len(s)
      /\ \A k \in 1..(h-1) : (s[k] = "?" /\ \A j \in 1..(k-1) : s[j] # "?") => k + 1 < h

\* a relative reference: no scheme, not empty, not starting with "//"
RelativeRef(s) ==
  /\ s # None
  /\ s # <<>>
  /\ ~HasScheme(s)
  /\ ~StartsWith(s, <<"/","/">>)

\* C9 as claimed: the action of every result is an absolute URL; a missing or
\* empty action attribute gives the page URL itself, "/submit" on
\* https://a.com/login gives https://a.com/submit, and an already-absolute
\* action is returned unchanged.
C9_ActionAsClaimed ==
  Returned =>
    /\ HasScheme(analysis_result.action)
    /\ form.action \in {None, <<>>} => analysis_result.action = url
    /\ (url = <<"h","t","t","p","s",":","/","/","a",".","c","o","m","/","l","o","g","i","n">> /\ form.action = <<"/","s","u","b","m","i","t">>)
         => analysis_result.action = <<"h","t","t","p","s",":","/","/","a",".","c","o","m","/","s","u","b","m","i","t">>
    /\ (form.action # None /\ HasScheme(form.action) /\ HasAuthority(form.action))
         => analysis_result.action = form.action

\* C9 as amended: the action of every result is an absolute URL; an empty
\* action attribute gives the page URL itself; a missing one gives the page URL
\* as the URL parser re-assembles it, which is the page URL itself when that
\* is spelled with a lower-case scheme and no empty "?" or "#" delimiter; a
\* relative action is joined against the page URL ("/submit" on
\* https://a.com/login gives https://a.com/submit); an already-absolute action
\* is returned unchanged when its scheme differs from the page's or when it is
\* spelled as the parser re-assembles it.
C9_ActionResolved ==
  Returned =>
    /\ HasScheme(analysis_result.action)
    /\ form.action = <<>> => analysis_result.action = url
    /\ (form.action = None /\ Reassembled(url)) => analysis_result.action = url
    /\ form.action = None =>
         /\ StartsWith(analysis_result.action, OriginOf(url))
         /\ Len(analysis_result.action) <= Len(url)
    /\ (url = <<"h","t","t","p","s",":","/","/","a",".","c","o","m","/","l","o","g","i","n">> /\ form.action = <<"/","s","u","b","m","i","t">>)
         => analysis_result.action = <<"h","t","t","p","s",":","/","/","a",".","c","o","m","/","s","u","b","m","i","t">>
    /\ RelativeRef(form.action) =>
         StartsWith(analysis_result.action, OriginOf(url))
    /\ (form.action # None /\ HasScheme(form.action) /\ HasAuthority(form.action)
        /\ (SchemeOf(form.action) # SchemeOf(url) \/ Reassembled(form.action)))
         => analysis_result.action = form.action

C9_Witness ==
  /\ Returned
  /\ url = <<"h","t","t","p","s",":","/","/","a",".","c","o","m","/","l","o","g","i","n">>
  /\ form.action = <<"/","s","u","b","m","i","t">>
  /\ analysis_result.action = <<"h","t","t","p","s",":","/","/","a",".","c","o","m","/","s","u","b","m","i","t">>

----------------------------------------------------------------------------
(* Properties of validate_url, checked under SpecValidate *)

\* the authority of s and what follows
Authority(s) ==
  LET i == SchemeColon(s)
      e == IF \E k \in (i+3)..Len(s) : s[k] \in {"/", "?", "#"}
           THEN CHOOSE k \in (i+3)..Len(s) :
                  s[k] \in {"/", "?", "#"} /\ \A j \in (i+3)..(k-1) : s[j] \notin {"/", "?", "#"}
           ELSE Len(s) + 1
  IN  SubSeq(s, i + 3, e - 1)

\* the URL parser raises on s: brackets in the authority that do not enclose
\* an IPv6 address
ParserRaises(s) ==
  /\ HasAuthority(s)
  /\ \/ HasChar(Authority(s), "[") /\ ~HasChar(Authority(s), "]")
     \/ HasChar(Authority(s), "]") /\ ~HasChar(Authority(s), "[")
     \/ /\ HasChar(Authority(s), "[")
        /\ HasChar(Authority(s), "]")
        /\ ~Contains(Authority(s), <<"[",":",":","1","]">>)

\* C7: validate_url returns true for the strings that have a non-empty scheme
\* and a non-empty network location, false for the strings lacking either, and
\* false, without raising, for the strings the URL parser fails on.
C7_ValidIffSchemeAndNetloc ==
  pc = "returned" =>
    /\ valid \in BOOLEAN
    /\ ParserRaises(url) => valid = FALSE
    /\ ~ParserRaises(url) => (valid <=> (HasScheme(url) /\ HasAuthority(url)))

C7_Witness ==
  /\ pc = "returned"
  /\ valid
  /\ HasScheme(url)
  /\ HasAuthority(url)
  /\ url[1] = "H"

----------------------------------------------------------------------------
(* Properties of main, checked under Spec *)

Exited == pc = "exited"

RequestFailed == fetch_outcome \in {"connection_error", "timeout", "http_error"}

\* C3: the exit code is 1 exactly when validate_url rejects the URL and 0 in
\* every other run: a fetch failure, a page with no forms and per-form
\* analyzer failures leave it at 0.
C3_ExitCode ==
  /\ ~Exited => exit_code = Running
  /\ Exited =>
       /\ exit_code \in {0, 1}
       /\ exit_code = 1 <=> ~(HasScheme(url) /\ HasAuthority(url) /\ ~ParserRaises(url))
       /\ exit_code = 1 <=> ~valid

C3_Witness ==
  /\ Exited
  /\ exit_code = 0
  /\ Len(results) = 2
  /\ results[1].failed
  /\ results[2].failed

\* C4: when the fetch fails for a validated URL, get_forms returns an empty
\* list after logging an error, and main logs "No forms found", analyzes no
\* form and exits 0.
C4_FetchFailureIsNoForms ==
  RequestFailed =>
    /\ valid
    /\ forms = <<>>
    /\ Logged("ERROR", "Error fetching URL", 0)
    /\ analyzed = <<>>
    /\ results = <<>>
    /\ pc \in {"forms", "exited"}
    /\ Exited => exit_code = 0 /\ Logged("INFO", "No forms found on the page.", 0)

C4_Witness ==
  /\ Exited
  /\ fetch_outcome = "http_error"
  /\ exit_code = 0

\* C5: with n >= 1 forms, main runs the analyzer on every form exactly once in
\* document order; a failure on form i is logged as an error for that form and
\* the forms after it are still analyzed and reported.
C5_EveryFormAnalyzedOnce ==
  /\ analyzed = [k \in 1..idx |-> k]
  /\ Len(results) = idx
  /\ idx <= Len(forms)
  /\ \A k \in 1..idx :
        /\ Logged("INFO", "Analyzing Form", k)
        /\ results[k].failed => Logged("ERROR", "Failed to analyze form", k)
        /\ ~results[k].failed => Logged("INFO", "Method", k) /\ Logged("INFO", "Action", k)
  /\ (Exited /\ forms # <<>>) => idx = Len(forms)

C5_Witness ==
  /\ Exited
  /\ Len(forms) = 2
  /\ analyzed = <<1, 2>>
  /\ results[1].failed
  /\ ~results[2].failed
  /\ Logged("INFO", "Method", 2)

\* a record at warning level was logged for form i
Warned(i) == \E k \in 1..Len(log) : log[k].form = i /\ log[k].level = "WARNING"

\* C6: for each analyzed form, the potential-vulnerability warning is logged if
\* and only if the analyzer returned a result without a token; a result with a
\* token is reported at informational level with the token name and no warning;
\* an analyzer failure is reported as an error, never as a missing-token warning.
C6_WarningIffNoToken ==
  \A i \in 1..Len(results) :
     /\ Logged("WARNING", "Potential CSRF vulnerability found!", i)
          <=> (~results[i].failed /\ ~results[i].has_csrf_token)
     /\ (~results[i].failed /\ results[i].has_csrf_token) =>
          /\ \E k \in 1..Len(log) :
                /\ log[k] = Rec("INFO", "CSRF Token Present: Yes", i, results[i].token_name)
          /\ ~Warned(i)
     /\ results[i].failed =>
          /\ Logged("ERROR", "Failed to analyze form", i)
          /\ ~Warned(i)

C6_Witness ==
  /\ Len(results) = 2
  /\ results[1].failed
  /\ ~results[2].failed
  /\ ~results[2].has_csrf_token
  /\ Logged("WARNING", "Potential CSRF vulnerability found!", 2)
  /\ Logged("ERROR", "Failed to analyze form", 1)

\* place of a step in the pipeline
Rank(step) == CASE step = "validate" -> 1
                [] step = "fetch"    -> 2
                [] step = "extract"  -> 3
                [] step = "analyze"  -> 4
                [] step = "report"   -> 4

Count(step) == Cardinality({ k \in 1..Len(trace) : trace[k] = step })

====
